---- MODULE Spec2Model ----
(***************************************************************************)
(* Model of scripts/auto_commit_from_diff.py: the change parser, the path  *)
(* classifier, type/scope/theme/intro inference, the remote generation     *)
(* adapter and the run() driver.                                           *)
(*                                                                         *)
(* Text is modelled by TLA+ strings, handled character by character with   *)
(* Len, SubSeq and \o.  Module text is ASCII, so every CJK character of    *)
(* the source is written as its pinyin syllable in braces (the keyword     *)
(* "xiu fu" of FIX_KEYWORDS is "{xiu}{fu}"); braces are used for nothing   *)
(* else, so substring tests agree with the source's.                       *)
(***************************************************************************)
EXTENDS Integers, Sequences, FiniteSets, TLC

VARIABLES
    pc,              \* position in run(), or the call a function-level run is at
    args,            \* the parsed command line
    tree,            \* what "git status --porcelain" reported: clean or dirty
    raw,             \* output of "git diff --cached --name-status -M"
    parse_raised,    \* exception escaping parse_name_status, "none" otherwise
    staged_loaded,   \* load_staged_changes has returned
    staged_changes,  \* list of Change
    paths,           \* [change.path for change in staged_changes]
    diff_text,       \* output of "git diff --cached --unified=1 --no-color"
    counts,          \* count_changes(staged_changes)
    local,           \* local_type, local_scope, local_theme, local_intro
    desc,            \* commit_type, scope, theme, intro
    ai_used,
    ai_raw,          \* the reply content request_deepseek returned
    ai_failure,      \* why remote generation failed, "none" otherwise
    message,         \* commit_header and commit_body once printed
    remote_calls,    \* calls of request_deepseek
    commit_calls,    \* invocations of "git commit"
    outcome          \* how run() ended

vars ==
    <<pc, args, tree, raw, parse_raised, staged_loaded, staged_changes, paths,
      diff_text, counts, local, desc, ai_used, ai_raw, ai_failure, message,
      remote_calls, commit_calls, outcome>>

\* ------------------------------------------------------------------------
\* Python str primitives
\* ------------------------------------------------------------------------

\* s[i] (1-based), "" outside the string
CharAt(s, i) == IF i >= 1 /\ i <= Len(s) THEN SubSeq(s, i, i) ELSE ""

UpperAlphabet == "ABCDEFGHIJKLMNOPQRSTUVWXYZ"

LowerAlphabet == "abcdefghijklmnopqrstuvwxyz"

Digits == "0123456789"

\* sub in s
Contains(s, sub) ==
    \E i \in 1..(Len(s) - Len(sub) + 1) : SubSeq(s, i, i + Len(sub) - 1) = sub

\* s.startswith(pre)
StartsWith(s, pre) == Len(pre) <= Len(s) /\ SubSeq(s, 1, Len(pre)) = pre

\* s.endswith(suf)
EndsWith(s, suf) ==
    Len(suf) <= Len(s) /\ SubSeq(s, Len(s) - Len(suf) + 1, Len(s)) = suf

\* position of the one-character string c in alphabet, 0 when absent
IndexIn(alphabet, c) ==
    IF \E i \in 1..Len(alphabet) : CharAt(alphabet, i) = c
    THEN CHOOSE i \in 1..Len(alphabet) : CharAt(alphabet, i) = c
    ELSE 0

CharsOf(alphabet) == {CharAt(alphabet, i) : i \in 1..Len(alphabet)}

UpperChars == CharsOf(UpperAlphabet)

\* the characters of the class [a-zA-Z0-9._-]
ScopeChars ==
    CharsOf(UpperAlphabet) \cup CharsOf(LowerAlphabet) \cup CharsOf(Digits)
        \cup {".", "_", "-"}

LowerChar(c) ==
    IF c \in UpperChars THEN CharAt(LowerAlphabet, IndexIn(UpperAlphabet, c)) ELSE c

RECURSIVE Flatten(_, _, _)
\* seq[lo] \o ... \o seq[hi], by halves
Flatten(seq, lo, hi) ==
    IF lo > hi THEN ""
    ELSE IF lo = hi THEN seq[lo]
    ELSE Flatten(seq, lo, (lo + hi) \div 2) \o Flatten(seq, ((lo + hi) \div 2) + 1, hi)

\* "".join(seq)
Concat(seq) == Flatten(seq, 1, Len(seq))

\* s.lower()
Lower(s) == Concat([i \in 1..Len(s) |-> LowerChar(CharAt(s, i))])

\* s.replace(old, new) for a one-character old
ReplaceChar(s, old, new) ==
    Concat([i \in 1..Len(s) |-> IF CharAt(s, i) = old THEN new ELSE CharAt(s, i)])

IsSpace(c) == c \in {" ", "\t", "\n", "\r", "\f"}

\* s with the leading characters that are in chars removed
LStripChars(s, chars) ==
    LET keep == {i \in 1..Len(s) : CharAt(s, i) \notin chars}
    IN  IF keep = {} THEN ""
        ELSE SubSeq(s, CHOOSE i \in keep : \A j \in keep : i <= j, Len(s))

\* s with the trailing characters that are in chars removed
RStripChars(s, chars) ==
    LET keep == {i \in 1..Len(s) : CharAt(s, i) \notin chars}
    IN  IF keep = {} THEN ""
        ELSE SubSeq(s, 1, CHOOSE i \in keep : \A j \in keep : j <= i)

\* s.strip(chars)
StripChars(s, chars) == RStripChars(LStripChars(s, chars), chars)

LStrip(s) == LStripChars(s, {" ", "\t", "\n", "\r", "\f"})

RStrip(s) == RStripChars(s, {" ", "\t", "\n", "\r", "\f"})

\* s.strip()
Strip(s) == StripChars(s, {" ", "\t", "\n", "\r", "\f"})

\* the k-th smallest element of a set of numbers
Nth(S, k) == CHOOSE i \in S : Cardinality({j \in S : j < i}) = k - 1

\* s.split(sep) for a one-character sep: always at least one field
Split(s, sep) ==
    LET at == {i \in 1..Len(s) : CharAt(s, i) = sep}
        n == Cardinality(at)
        cut(k) == IF k = 0 THEN 0 ELSE IF k = n + 1 THEN Len(s) + 1 ELSE Nth(at, k)
    IN  [k \in 1..(n + 1) |-> SubSeq(s, cut(k - 1) + 1, cut(k) - 1)]

\* s.splitlines(): a line ends at \n, \r, \r\n or \f; line ends are dropped and a
\* final line end opens no line
SplitLines(s) ==
    LET ends == {i \in 1..Len(s) :
                    \/ CharAt(s, i) \in {"\n", "\f"}
                    \/ CharAt(s, i) = "\r" /\ CharAt(s, i + 1) # "\n"}
        n == Cardinality(ends)
        cut(k) == IF k = 0 THEN 0 ELSE IF k = n + 1 THEN Len(s) + 1 ELSE Nth(ends, k)
        last(k) == IF k <= n /\ CharAt(s, cut(k)) = "\n" /\ cut(k) - 1 > cut(k - 1)
                        /\ CharAt(s, cut(k) - 1) = "\r"
                   THEN cut(k) - 2
                   ELSE cut(k) - 1
        count == IF cut(n) = Len(s) THEN n ELSE n + 1
    IN  [k \in 1..count |-> SubSeq(s, cut(k - 1) + 1, last(k))]

\* sep.join(seq)
Join(sep, seq) ==
    Concat([i \in 1..Len(seq) |-> IF i = 1 THEN seq[i] ELSE sep \o seq[i]])

\* [x for x in seq if x # ""]
NonEmptyOnly(seq) == SelectSeq(seq, LAMBDA x : x # "")

\* the elements of a sequence
Range(seq) == {seq[i] : i \in 1..Len(seq)}

\* seq[:n]
Take(seq, n) == SubSeq(seq, 1, IF n < Len(seq) THEN n ELSE Len(seq))

RECURSIVE IntToStr(_)
\* str(n) for n >= 0
IntToStr(n) ==
    IF n < 10 THEN CharAt(Digits, n + 1)
    ELSE IntToStr(n \div 10) \o CharAt(Digits, (n % 10) + 1)

\* ------------------------------------------------------------------------
\* Vocabularies (module constants of the script)
\* ------------------------------------------------------------------------

ALLOWED_TYPES ==
    {"feat", "fix", "refactor", "docs", "style", "test", "chore", "perf", "ci",
     "build", "revert"}

DOC_EXTENSIONS == {".md", ".rst", ".adoc", ".txt"}

STYLE_EXTENSIONS == {".css", ".scss", ".sass", ".less", ".styl"}

DOC_BASENAMES == {"readme.md", "changelog.md", "license", "license.md"}

STYLE_CONFIG_BASENAMES ==
    {".editorconfig", ".prettierrc", ".stylelintrc", ".eslintrc", ".eslintrc.js",
     ".eslintrc.cjs", ".eslintrc.json"}

BUILD_BASENAMES ==
    {"makefile", "dockerfile", "docker-compose.yml", "docker-compose.yaml",
     "package.json", "pnpm-lock.yaml", "yarn.lock", "package-lock.json", "pom.xml",
     "build.gradle", "build.gradle.kts", "gradle.properties", "pyproject.toml",
     "requirements.txt"}

CI_PATH_HINTS ==
    {".github/workflows/", ".gitlab-ci.yml", ".circleci/", "azure-pipelines.yml",
     "azure-pipelines.yaml", "jenkinsfile"}

ROOT_SCOPE_BASENAMES ==
    {".gitignore", ".gitattributes", ".npmrc", ".nvmrc", "readme.md", "license",
     "license.md"}

FIX_KEYWORDS ==
    {"fix", "bug", "hotfix", "crash", "error", "exception", "null", "patch",
     "{xiu}{fu}", "{cuo}{wu}", "{yi}{chang}"}

REFACTOR_KEYWORDS ==
    {"refactor", "cleanup", "restructure", "rename", "{chong}{gou}", "{zheng}{li}"}

PERF_KEYWORDS ==
    {"perf", "performance", "optimiz", "benchmark", "{xing}{neng}", "{you}{hua}"}

TEST_DIR_NAMES == {"test", "tests", "testing", "__tests__", "spec", "specs", "e2e"}

REVERT_MARKER == "this reverts commit"

\* ------------------------------------------------------------------------
\* Path helpers
\* ------------------------------------------------------------------------

normalize_path(path) == Strip(ReplaceChar(path, "\\", "/"))

split_path(path) == NonEmptyOnly(Split(normalize_path(path), "/"))

\* pathlib.PurePosixPath(path).name: the last component, where empty and "."
\* components are dropped by pathlib's parsing
PathName(path) ==
    LET comps == SelectSeq(Split(path, "/"), LAMBDA x : x # "" /\ x # ".")
    IN  IF Len(comps) = 0 THEN "" ELSE comps[Len(comps)]

\* index of the last "." of name, 0 when there is none
LastDot(name) ==
    IF \E i \in 1..Len(name) : CharAt(name, i) = "."
    THEN CHOOSE i \in 1..Len(name) :
             /\ CharAt(name, i) = "."
             /\ \A j \in (i + 1)..Len(name) : CharAt(name, j) # "."
    ELSE 0

\* pathlib's suffix: from the last dot, unless the dot is first or last
PathSuffix(path) ==
    LET name == PathName(path)
        i == LastDot(name)
    IN  IF i > 1 /\ i < Len(name) THEN SubSeq(name, i, Len(name)) ELSE ""

extension(path) == Lower(PathSuffix(path))

basename(path) == Lower(PathName(path))

\* ------------------------------------------------------------------------
\* Path classifier
\* ------------------------------------------------------------------------

is_docs(path) ==
    LET p == Lower(normalize_path(path))
        b == basename(p)
        parts == Range(split_path(p))
    IN  \/ extension(p) \in DOC_EXTENSIONS
        \/ b \in DOC_BASENAMES
        \/ "docs" \in parts
        \/ "doc" \in parts
        \/ "documentation" \in parts

is_test(path) ==
    LET p == Lower(normalize_path(path))
        b == basename(p)
        parts == Range(split_path(p))
    IN  \/ parts \cap TEST_DIR_NAMES # {}
        \/ StartsWith(b, "test_")
        \/ EndsWith(b, "_test.py")
        \/ EndsWith(b, ".spec.ts")
        \/ EndsWith(b, ".spec.tsx")
        \/ EndsWith(b, ".spec.js")
        \/ EndsWith(b, ".spec.jsx")

is_ci(path) ==
    LET p == Lower(normalize_path(path))
    IN  \/ \E hint \in CI_PATH_HINTS : StartsWith(p, hint)
        \/ basename(p) \in {"jenkinsfile", ".gitlab-ci.yml"}

is_build(path) ==
    LET p == Lower(normalize_path(path))
        b == basename(p)
        parts == Range(split_path(p))
    IN  \/ b \in BUILD_BASENAMES
        \/ "build" \in parts
        \/ StartsWith(b, "vite.config")
        \/ StartsWith(b, "webpack.config")
        \/ StartsWith(b, "rollup.config")

is_style(path) ==
    LET p == Lower(normalize_path(path))
    IN  extension(p) \in STYLE_EXTENSIONS \/ basename(p) \in STYLE_CONFIG_BASENAMES

is_perf(path) ==
    LET p == Lower(normalize_path(path))
    IN  Contains(p, "perf") \/ Contains(p, "benchmark")

has_keyword(text, keywords) ==
    LET lowered == Lower(text)
    IN  \E keyword \in keywords : Contains(lowered, keyword)

\* ------------------------------------------------------------------------
\* Content signal
\* ------------------------------------------------------------------------

IsDiffMeta(line) ==
    \/ StartsWith(line, "diff --git ")
    \/ StartsWith(line, "index ")
    \/ StartsWith(line, "@@ ")
    \/ StartsWith(line, "--- ")
    \/ StartsWith(line, "+++ ")

extract_content_signal(diff) ==
    LET lines == SplitLines(diff)
        kept == SelectSeq(lines, LAMBDA l :
                    ~IsDiffMeta(l) /\ (StartsWith(l, "+") \/ StartsWith(l, "-")))
        content_lines == [i \in 1..Len(kept) |-> Tail(kept[i])]
    IN  Lower(Join("\n", content_lines))

\* ------------------------------------------------------------------------
\* Change parser
\* ------------------------------------------------------------------------

\* Change(status, path, old_path); old_path is <<>> for None, <<p>> otherwise
Change(status, path, old_path) ==
    [status |-> status, path |-> path, old_path |-> old_path]

\* one iteration of the loop of parse_name_status: the Changes the line adds,
\* or the IndexError of status_token[0] on an empty status token
ParseLine(line) ==
    LET parts == Split(line, "\t")
        status_token == Strip(parts[1])
        status == CharAt(status_token, 1)
    IN  IF Strip(line) = "" THEN [raised |-> "none", changes |-> <<>>]
        ELSE IF status_token = "" THEN [raised |-> "IndexError", changes |-> <<>>]
        ELSE IF status \in {"R", "C"} /\ Len(parts) >= 3
             THEN [raised |-> "none",
                   changes |-> <<Change(status, normalize_path(parts[3]),
                                        <<normalize_path(parts[2])>>)>>]
        ELSE IF Len(parts) >= 2
             THEN [raised |-> "none",
                   changes |-> <<Change(status, normalize_path(parts[2]), <<>>)>>]
        ELSE [raised |-> "none", changes |-> <<>>]

RECURSIVE ParseLines(_)
ParseLines(lines) ==
    IF Len(lines) = 0 THEN [raised |-> "none", changes |-> <<>>]
    ELSE LET first == ParseLine(Head(lines))
             rest == ParseLines(Tail(lines))
         IN  IF first.raised # "none" THEN first
             ELSE [raised |-> rest.raised,
                   changes |-> IF rest.raised # "none" THEN <<>>
                               ELSE first.changes \o rest.changes]

\* the list returned, or the exception that escapes (raised # "none")
parse_name_status(raw_text) == ParseLines(SplitLines(raw_text))

CountStatus(changes, statuses) ==
    Cardinality({i \in 1..Len(changes) : changes[i].status \in statuses})

count_changes(changes) ==
    [A |-> CountStatus(changes, {"A", "C"}),
     M |-> Len(changes) - CountStatus(changes, {"A", "C", "D", "R"}),
     D |-> CountStatus(changes, {"D"}),
     R |-> CountStatus(changes, {"R"})]

\* ------------------------------------------------------------------------
\* Type inference
\* ------------------------------------------------------------------------

\* the category rules firing when some path matches instead of all
CategoryRulesAnyOf(path_list) ==
    IF \E i \in 1..Len(path_list) : is_docs(path_list[i]) THEN "docs"
    ELSE IF \E i \in 1..Len(path_list) : is_test(path_list[i]) THEN "test"
    ELSE IF \E i \in 1..Len(path_list) : is_ci(path_list[i]) THEN "ci"
    ELSE IF \E i \in 1..Len(path_list) : is_build(path_list[i]) THEN "build"
    ELSE IF \E i \in 1..Len(path_list) : is_style(path_list[i]) THEN "style"
    ELSE "none"

\* the five all(...) rules of infer_type: the category, "none" when none applies
CategoryRules(path_list) ==
    IF \A i \in 1..Len(path_list) : is_docs(path_list[i]) THEN "docs"
    ELSE IF \A i \in 1..Len(path_list) : is_test(path_list[i]) THEN "test"
    ELSE IF \A i \in 1..Len(path_list) : is_ci(path_list[i]) THEN "ci"
    ELSE IF \A i \in 1..Len(path_list) : is_build(path_list[i]) THEN "build"
    ELSE IF \A i \in 1..Len(path_list) : is_style(path_list[i]) THEN "style"
    ELSE "none"

SignalText(path_list, diff) ==
    Lower(Join(" ", path_list)) \o "\n" \o extract_content_signal(diff)

\* the keyword rules with fix tested before perf
KeywordRulesFixFirst(path_list, diff, cnt) ==
    LET signal_text == SignalText(path_list, diff)
    IN  IF has_keyword(signal_text, FIX_KEYWORDS) THEN "fix"
        ELSE IF (\E i \in 1..Len(path_list) : is_perf(path_list[i]))
                  \/ has_keyword(signal_text, PERF_KEYWORDS)
             THEN "perf"
        ELSE IF has_keyword(signal_text, REFACTOR_KEYWORDS) THEN "refactor"
        ELSE IF cnt.A > 0 THEN "feat"
        ELSE "chore"

\* the tail of infer_type: keyword rules, then the Added count
KeywordRules(path_list, diff, cnt) ==
    LET signal_text == SignalText(path_list, diff)
    IN  IF (\E i \in 1..Len(path_list) : is_perf(path_list[i]))
             \/ has_keyword(signal_text, PERF_KEYWORDS)
        THEN "perf"
        ELSE IF has_keyword(signal_text, FIX_KEYWORDS) THEN "fix"
        ELSE IF has_keyword(signal_text, REFACTOR_KEYWORDS) THEN "refactor"
        ELSE IF cnt.A > 0 THEN "feat"
        ELSE "chore"

\* infer_type with the revert test moved behind the category rules
infer_type_revert_late(path_list, diff, cnt) ==
    IF Len(path_list) = 0 THEN "chore"
    ELSE IF CategoryRules(path_list) # "none" THEN CategoryRules(path_list)
    ELSE IF Contains(Lower(diff), REVERT_MARKER) THEN "revert"
    ELSE KeywordRules(path_list, diff, cnt)

infer_type(path_list, diff, cnt) ==
    IF Len(path_list) = 0 THEN "chore"
    ELSE IF Contains(Lower(diff), REVERT_MARKER) THEN "revert"
    ELSE IF CategoryRules(path_list) # "none" THEN CategoryRules(path_list)
    ELSE KeywordRules(path_list, diff, cnt)

\* ------------------------------------------------------------------------
\* Scope inference
\* ------------------------------------------------------------------------

ScopeChar(c) == c \in ScopeChars

\* re.sub(r"[^a-zA-Z0-9._-]+", "-", s): each run of other characters becomes one "-"
SubRuns(s) ==
    Concat([i \in 1..Len(s) |->
               IF ScopeChar(CharAt(s, i)) THEN CharAt(s, i)
               ELSE IF i > 1 /\ ~ScopeChar(CharAt(s, i - 1)) THEN ""
               ELSE "-"])

\* sanitize_scope without the final lower()
sanitize_scope_no_lower(scope) ==
    LET cleaned == StripChars(SubRuns(scope), {"-", "."})
    IN  IF cleaned = "" THEN "repo" ELSE cleaned

sanitize_scope(scope) ==
    LET cleaned == Lower(StripChars(SubRuns(scope), {"-", "."}))
    IN  IF cleaned = "" THEN "repo" ELSE cleaned

\* the topic a path adds to tops, <<>> for a root-like path
TopOf(path) ==
    LET normalized == normalize_path(path)
        parts == split_path(normalized)
        top == parts[1]
        stripped == LStripChars(top, {"."})
    IN  IF Len(parts) <= 1 \/ basename(normalized) \in ROOT_SCOPE_BASENAMES THEN <<>>
        ELSE IF StartsWith(top, ".") /\ Len(parts) > 1
             THEN <<IF stripped = "" THEN parts[1] ELSE stripped>>
        ELSE <<top>>

RECURSIVE Tops(_)
\* the list tops after the loop, in path order
Tops(path_list) ==
    IF Len(path_list) = 0 THEN <<>>
    ELSE TopOf(Head(path_list)) \o Tops(Tail(path_list))

\* infer_scope taking the topic of the first non-root path it meets
infer_scope_first_top(path_list, commit_type) ==
    IF Len(path_list) = 0 THEN "repo"
    ELSE IF commit_type = "ci" THEN "ci"
    ELSE IF commit_type = "docs" THEN "docs"
    ELSE IF commit_type = "build" THEN "build"
    ELSE IF Len(Tops(path_list)) >= 1 THEN sanitize_scope(Tops(path_list)[1])
    ELSE "repo"

infer_scope(path_list, commit_type) ==
    IF Len(path_list) = 0 THEN "repo"
    ELSE IF commit_type = "ci" THEN "ci"
    ELSE IF commit_type = "docs" THEN "docs"
    ELSE IF commit_type = "build" THEN "build"
    ELSE LET unique == Range(Tops(path_list))
         IN  IF Cardinality(unique) = 1
             THEN sanitize_scope(CHOOSE t \in unique : TRUE)
             ELSE IF Cardinality(unique) > 1 THEN "multi"
             ELSE "repo"

\* ------------------------------------------------------------------------
\* Theme and intro
\* ------------------------------------------------------------------------

infer_theme(scope, cnt, commit_type) ==
    IF commit_type = "revert" THEN "{hui}{gun}{shang}{yi}{lun}{gai}{dong}"
    ELSE IF cnt.A > 0 /\ cnt.M = 0 /\ cnt.D = 0 /\ cnt.R = 0
         THEN "{xin}{zeng}" \o scope \o "{xiang}{guan}{nei}{rong}"
    ELSE IF cnt.D > 0 /\ cnt.A = 0 /\ cnt.M = 0
         THEN "{yi}{chu}" \o scope \o "{rong}{yu}{nei}{rong}"
    ELSE IF cnt.R > 0 /\ cnt.A = 0
         THEN "{zheng}{li}" \o scope \o "{wen}{jian}{jie}{gou}"
    ELSE IF cnt.M > 0 /\ cnt.A = 0
         THEN "{wan}{shan}" \o scope \o "{xiang}{guan}{shi}{xian}"
    ELSE "{tong}{bu}" \o scope \o "{xiang}{guan}{gai}{dong}"

infer_intro(scope, cnt, path_list, max_files) ==
    LET total == Len(path_list)
        preview == Join("{,}", Take(path_list, max_files))
        suffix == IF total > max_files
                  THEN " {deng}" \o IntToStr(total) \o "{ge}{wen}{jian}"
                  ELSE ""
    IN  "{dui}" \o IntToStr(total) \o "{ge}{wen}{jian}{jin}{xing}{le}{bian}{geng}{(}"
        \o "{xin}{zeng}" \o IntToStr(cnt.A) \o "{dun}{xiu}{gai}" \o IntToStr(cnt.M)
        \o "{dun}{shan}{chu}" \o IntToStr(cnt.D) \o "{dun}{chong}{ming}{ming}"
        \o IntToStr(cnt.R) \o "{)}{,}{zhu}{yao}{ji}{zhong}{zai}" \o scope
        \o "{fan}{wei}{,}{she}{ji}" \o preview \o suffix \o "{.}"

build_body(commit_type, scope, theme, intro) ==
    Join("\n", <<"{lei}{xing}: " \o commit_type, "{zuo}{yong}{yu}: " \o scope,
                 "{zhu}{ti}: " \o theme, "{jian}{jie}: " \o intro>>)

CommitHeader(commit_type, scope, theme) ==
    commit_type \o "(" \o scope \o "): " \o theme

\* ------------------------------------------------------------------------
\* Bounds and input pools
\* ------------------------------------------------------------------------

\* longest path list given to infer_type
MaxTypePaths == 2

\* longest path list given to infer_scope
MaxScopePaths == 3

\* most lines of a name-status text given to parse_name_status
MaxLines == 3

\* largest --max-files value tried
MaxFilesArg == 2

SeqsUpTo(S, n) == UNION {[1..k -> S] : k \in 0..n}

\* values of the variables a specification does not use
NoArgs ==
    [no_stage |-> FALSE, dry_run |-> FALSE, no_ai |-> FALSE, ai_required |-> FALSE,
     max_files |-> 5,
     type_override |-> [given |-> FALSE, value |-> ""],
     scope_override |-> [given |-> FALSE, value |-> ""],
     theme_override |-> [given |-> FALSE, value |-> ""],
     intro_override |-> [given |-> FALSE, value |-> ""]]

NoCounts == [A |-> 0, M |-> 0, D |-> 0, R |-> 0]

NoDesc == [type |-> "", scope |-> "", theme |-> "", intro |-> ""]

NoMessage == [printed |-> FALSE, header |-> "", body |-> ""]

NoField == [t |-> "missing", s |-> ""]

NoReply ==
    [json |-> "absent",
     fields |-> [type |-> NoField, scope |-> NoField, theme |-> NoField,
                 intro |-> NoField]]

\* paths tried on infer_type: one in two categories (documentation and test), one
\* in each of test, ci, build and style alone, a performance path, a plain path
TypePathPool ==
    {"docs/tests/a.md", "tests/test_x.py", "Jenkinsfile", "package.json", "app.css",
     "src/Benchmark.py", "src/main.py"}

\* diffs tried: empty; the revert marker on a removed line; the marker on a context
\* line only; a performance word; a fix and a refactor word; a refactor word under
\* header lines naming a fix
DiffPool ==
    {"",
     "@@ -1 +1 @@\n-This Reverts Commit 1a2b\n+x\n",
     "@@ -1 +1 @@\n This reverts commit 1a2b\n+x\n",
     "+optimize loop\n",
     "-cleanup\n+fix it\n",
     "--- a/fix.py\n+++ b/fix.py\n+rename it\n"}

\* the counts count_changes gives when every path was modified, and when the first
\* was added and the others modified
CountsFor(path_list) ==
    {count_changes([i \in 1..Len(path_list) |->
                       Change(IF i = 1 THEN first ELSE "M", path_list[i], <<>>)]) :
        first \in {"A", "M"}}

\* ------------------------------------------------------------------------
\* infer_type, called on any path list, diff and counts
\* ------------------------------------------------------------------------

InitType ==
    /\ pc = "type_in"
    /\ paths \in SeqsUpTo(TypePathPool, MaxTypePaths)
    /\ diff_text \in DiffPool
    /\ counts \in CountsFor(paths)
    /\ local = NoDesc
    /\ args = NoArgs /\ tree = "unknown" /\ raw = "" /\ parse_raised = "none"
    /\ staged_loaded = FALSE
    /\ staged_changes = <<>> /\ desc = NoDesc /\ ai_used = FALSE /\ ai_raw = NoReply
    /\ ai_failure = "none" /\ message = NoMessage /\ remote_calls = 0
    /\ commit_calls = 0 /\ outcome = "running"

InferTypeCall ==
    /\ pc = "type_in"
    /\ local' = [local EXCEPT !.type = infer_type(paths, diff_text, counts)]
    /\ pc' = "type_out"
    /\ UNCHANGED <<args, tree, raw, parse_raised, staged_loaded, staged_changes,
                   paths, diff_text, counts, desc, ai_used, ai_raw, ai_failure,
                   message, remote_calls, commit_calls, outcome>>

NextType == InferTypeCall

SpecType == InitType /\ [][NextType]_vars

\* ------------------------------------------------------------------------
\* Properties of infer_type (checked under SpecType)
\* ------------------------------------------------------------------------

HasRevertSignal == Contains(extract_content_signal(diff_text), REVERT_MARKER)

HasRevertText == Contains(Lower(diff_text), REVERT_MARKER)

AllDocs == \A i \in 1..Len(paths) : is_docs(paths[i])

AllTest == \A i \in 1..Len(paths) : is_test(paths[i])

AllCi == \A i \in 1..Len(paths) : is_ci(paths[i])

AllBuild == \A i \in 1..Len(paths) : is_build(paths[i])

AllStyle == \A i \in 1..Len(paths) : is_style(paths[i])

\* C4 as stated: whenever the content signal of the diff contains "this reverts
\* commit", infer_type returns "revert", for every change list.
C4_RevertForEveryList ==
    (pc = "type_out" /\ HasRevertSignal) => local.type = "revert"

\* C4 amended: whenever the content signal contains "this reverts commit" and the
\* path list is not empty, infer_type returns "revert", whatever the paths, keywords
\* and counts are.
C4_RevertForNonEmptyList ==
    (pc = "type_out" /\ HasRevertSignal /\ Len(paths) > 0) => local.type = "revert"

\* an all-documentation list with Added files whose diff carries the marker
C4_Witness ==
    /\ pc = "type_out"
    /\ HasRevertSignal
    /\ Len(paths) = 2
    /\ AllDocs
    /\ counts.A > 0
    /\ local.type = "revert"

InNoCategory ==
    /\ ~AllDocs
    /\ ~AllTest
    /\ ~AllCi
    /\ ~AllBuild
    /\ ~AllStyle

PathHint(path) ==
    \/ Contains(Lower(normalize_path(path)), "perf")
    \/ Contains(Lower(normalize_path(path)), "benchmark")

\* the signal string of the claim: joined lower-cased paths, then the content signal
ClaimSignal == Lower(Join(" ", paths)) \o "\n" \o extract_content_signal(diff_text)

SignalHas(keywords) == \E k \in keywords : Contains(ClaimSignal, k)

FirstKeywordRule ==
    IF (\A i \in 1..Len(paths) : ~PathHint(paths[i])) /\ ~SignalHas(PERF_KEYWORDS)
    THEN (IF SignalHas(FIX_KEYWORDS) THEN "fix"
          ELSE IF SignalHas(REFACTOR_KEYWORDS) THEN "refactor"
          ELSE IF counts.A > 0 THEN "feat"
          ELSE "chore")
    ELSE "perf"

ScopePathPool ==
    {"src/a.py", "Lib\\Core.PY", ".github/workflows/ci.yml", "README.md",
     "sub/.gitignore", "My Dir/f.txt"}

ScopeTypePool == {"feat", "ci", "docs", "build"}

InitScope ==
    /\ pc = "scope_in"
    /\ paths \in SeqsUpTo(ScopePathPool, MaxScopePaths)
    /\ local \in {[NoDesc EXCEPT !.type = t] : t \in ScopeTypePool}
    /\ diff_text = "" /\ counts = NoCounts
    /\ args = NoArgs /\ tree = "unknown" /\ raw = "" /\ parse_raised = "none"
    /\ staged_loaded = FALSE
    /\ staged_changes = <<>> /\ desc = NoDesc /\ ai_used = FALSE /\ ai_raw = NoReply
    /\ ai_failure = "none" /\ message = NoMessage /\ remote_calls = 0
    /\ commit_calls = 0 /\ outcome = "running"

InferScopeCall ==
    /\ pc = "scope_in"
    /\ local' = [local EXCEPT !.scope = infer_scope(paths, local.type)]
    /\ pc' = "scope_out"
    /\ UNCHANGED <<args, tree, raw, parse_raised, staged_loaded, staged_changes,
                   paths, diff_text, counts, desc, ai_used, ai_raw, ai_failure,
                   message, remote_calls, commit_calls, outcome>>

NextScope == InferScopeCall

SpecScope == InitScope /\ [][NextScope]_vars

\* the reorderings of a list
PermsOf(seq) ==
    {[i \in 1..Len(seq) |-> seq[f[i]]] : f \in Permutations(1..Len(seq))}

\* C9: every permutation of the same paths yields the scope infer_scope returned
\* for them, for every commit type.
C9_ScopeOrderInvariant ==
    pc = "scope_out" =>
        \A q \in PermsOf(paths) : infer_scope(q, local.type) = local.scope

\* a list whose first two paths lie under different top directories, after a
\* root-like path or before one, scoped "multi"
C9_Witness ==
    /\ pc = "scope_out"
    /\ Len(paths) = 3
    /\ Cardinality(Range(Tops(paths))) = 2
    /\ \E i \in 1..3 : TopOf(paths[i]) = <<>>
    /\ local.type = "feat"
    /\ local.scope = "multi"

\* ------------------------------------------------------------------------
\* parse_name_status, called on any text
\* ------------------------------------------------------------------------

\* lines tried: added, renamed, copied with a backslash path and padded fields, a
\* status alone, an empty status token, a blank line, a padded status with a third
\* field, a rename with one path
LinePool ==
    {"A\ta.py", "R100\told.py\tnew.py", "C75\tsrc\\a.py\t lib/b.py ", "M",
     "\tfoo.py", "  ", " D \tgone.txt\textra", "R\tonly.py"}

InitParse ==
    /\ pc = "parse_in"
    /\ raw \in {Join("\n", lines) : lines \in SeqsUpTo(LinePool, MaxLines)}
    /\ staged_changes = <<>> /\ parse_raised = "none" /\ staged_loaded = FALSE
    /\ paths = <<>> /\ diff_text = "" /\ counts = NoCounts /\ local = NoDesc
    /\ args = NoArgs /\ tree = "unknown" /\ desc = NoDesc /\ ai_used = FALSE
    /\ ai_raw = NoReply /\ ai_failure = "none" /\ message = NoMessage
    /\ remote_calls = 0 /\ commit_calls = 0 /\ outcome = "running"

ParseCall ==
    /\ pc = "parse_in"
    /\ staged_changes' = parse_name_status(raw).changes
    /\ parse_raised' = parse_name_status(raw).raised
    /\ pc' = "parse_out"
    /\ UNCHANGED <<args, tree, raw, staged_loaded, paths, diff_text, counts, local,
                   desc, ai_used, ai_raw, ai_failure, message, remote_calls,
                   commit_calls, outcome>>

NextParse == ParseCall

SpecParse == InitParse /\ [][NextParse]_vars

\* a line with the fields the parser needs: not blank, two tab-separated fields,
\* a status token before the first tab
WellFormedLine(line) ==
    /\ Strip(line) # ""
    /\ Len(Split(line, "\t")) >= 2
    /\ Strip(Split(line, "\t")[1]) # ""

ChangeOfLine(line) ==
    LET f == Split(line, "\t")
        st == CharAt(Strip(f[1]), 1)
    IN  IF st \in {"R", "C"} /\ Len(f) >= 3
        THEN Change(st, normalize_path(f[3]), <<normalize_path(f[2])>>)
        ELSE Change(st, normalize_path(f[2]), <<>>)

ChangesOfWellFormed(text) ==
    LET good == SelectSeq(SplitLines(text), WellFormedLine)
    IN  [i \in 1..Len(good) |-> ChangeOfLine(good[i])]

\* C10: parse_name_status fails on no text; lines lacking the required fields are
\* dropped and the result is the Changes of the well-formed lines, in input order.
C10_NeverFailsDropsMalformed ==
    pc = "parse_out" =>
        /\ parse_raised = "none"
        /\ staged_changes = ChangesOfWellFormed(raw)

\* ------------------------------------------------------------------------
\* Remote generation adapter
\* ------------------------------------------------------------------------

\* A JSON text is held by what json.loads makes of it: "invalid" (JSONDecodeError),
\* "array" (a value that is no object), "object" with its four fields, or "empty"
\* (the empty string).  A field is missing, null or a string.

\* str(data.get(key, ""))
PyStr(v) == IF v.t = "missing" THEN "" ELSE IF v.t = "null" THEN "None" ELSE v.s

Str(text) == [t |-> "str", s |-> text]

Null == [t |-> "null", s |-> ""]

\* normalize_ai_result accepting an empty intro
normalize_ai_result_no_intro_check(raw_json) ==
    LET f == raw_json.fields
        commit_type == Lower(Strip(PyStr(f.type)))
        scope_text == Strip(PyStr(f.scope))
        value == [type |-> commit_type,
                  scope |-> sanitize_scope(IF scope_text = "" THEN "repo" ELSE scope_text),
                  theme |-> Strip(PyStr(f.theme)),
                  intro |-> Strip(PyStr(f.intro))]
    IN  IF raw_json.json = "invalid"
        THEN [raised |-> "RuntimeError", cause |-> "content_not_json", value |-> NoDesc]
        ELSE IF raw_json.json # "object"
        THEN [raised |-> "AttributeError", cause |-> "content_not_record",
              value |-> NoDesc]
        ELSE IF commit_type \notin ALLOWED_TYPES
        THEN [raised |-> "RuntimeError", cause |-> "invalid_type", value |-> NoDesc]
        ELSE IF value.theme = ""
        THEN [raised |-> "RuntimeError", cause |-> "empty_theme", value |-> NoDesc]
        ELSE [raised |-> "none", cause |-> "none", value |-> value]

\* the tuple returned, or the exception raised (raised # "none") and its cause
normalize_ai_result(raw_json) ==
    LET f == raw_json.fields
        commit_type == Lower(Strip(PyStr(f.type)))
        scope_text == Strip(PyStr(f.scope))
        value == [type |-> commit_type,
                  scope |-> sanitize_scope(IF scope_text = "" THEN "repo" ELSE scope_text),
                  theme |-> Strip(PyStr(f.theme)),
                  intro |-> Strip(PyStr(f.intro))]
    IN  IF raw_json.json = "invalid"
        THEN [raised |-> "RuntimeError", cause |-> "content_not_json", value |-> NoDesc]
        ELSE IF raw_json.json # "object"
        THEN [raised |-> "AttributeError", cause |-> "content_not_record",
              value |-> NoDesc]
        ELSE IF commit_type \notin ALLOWED_TYPES
        THEN [raised |-> "RuntimeError", cause |-> "invalid_type", value |-> NoDesc]
        ELSE IF value.theme = ""
        THEN [raised |-> "RuntimeError", cause |-> "empty_theme", value |-> NoDesc]
        ELSE IF value.intro = ""
        THEN [raised |-> "RuntimeError", cause |-> "empty_intro", value |-> NoDesc]
        ELSE [raised |-> "none", cause |-> "none", value |-> value]

\* What the remote side does in one call: whether DEEPSEEK_API_KEY is set, how the
\* transport ends, what json.loads makes of the response body, how many choices the
\* body has and the content of the first.
RemoteCase(api_key, transport, body, choices, content) ==
    [api_key |-> api_key, transport |-> transport, body |-> body,
     choices |-> choices, content |-> content]

\* the content returned, or the exception raised and its cause
request_deepseek(rc) ==
    IF ~rc.api_key
    THEN [raised |-> "RuntimeError", cause |-> "missing_credential", content |-> NoReply]
    ELSE IF rc.transport \in {"HTTPError", "URLError"}
    THEN [raised |-> "RuntimeError", cause |-> "transport", content |-> NoReply]
    ELSE IF rc.transport = "URLError(timeout)"
    THEN [raised |-> "RuntimeError", cause |-> "timeout", content |-> NoReply]
    ELSE IF rc.transport = "TimeoutError"
    THEN [raised |-> "TimeoutError", cause |-> "timeout", content |-> NoReply]
    ELSE IF rc.body = "invalid"
    THEN [raised |-> "JSONDecodeError", cause |-> "body_not_json", content |-> NoReply]
    ELSE IF rc.body # "object"
    THEN [raised |-> "AttributeError", cause |-> "body_not_record", content |-> NoReply]
    ELSE IF rc.choices = 0
    THEN [raised |-> "RuntimeError", cause |-> "empty_choices", content |-> NoReply]
    ELSE IF rc.content.json = "empty"
    THEN [raised |-> "RuntimeError", cause |-> "empty_content", content |-> NoReply]
    ELSE [raised |-> "none", cause |-> "none", content |-> rc.content]

\* reply fields tried
ReplyTypePool == {NoField, Str(" Fix "), Str("feature")}

ReplyScopePool == {NoField, Str("Core API"), Null}

ReplyThemePool == {NoField, Str("remote theme"), Str("  ")}

ReplyIntroPool == {NoField, Str("remote intro"), Str("")}

ReplyObjects ==
    {[json |-> "object",
      fields |-> [type |-> ty, scope |-> sc, theme |-> th, intro |-> it]] :
        ty \in ReplyTypePool, sc \in ReplyScopePool, th \in ReplyThemePool,
        it \in ReplyIntroPool}

ContentPool ==
    {[NoReply EXCEPT !.json = j] : j \in {"empty", "invalid", "array"}}
        \cup ReplyObjects

\* a timeout is wrapped in URLError while the request is sent and surfaces as a bare
\* TimeoutError while the response is awaited or read
RemoteCases ==
    {RemoteCase(FALSE, "ok", "object", 1, NoReply)}
        \cup {RemoteCase(TRUE, t, "object", 1, NoReply) :
                  t \in {"HTTPError", "URLError", "URLError(timeout)", "TimeoutError"}}
        \cup {RemoteCase(TRUE, "ok", b, 1, NoReply) : b \in {"invalid", "array"}}
        \cup {RemoteCase(TRUE, "ok", "object", 0, NoReply)}
        \cup {RemoteCase(TRUE, "ok", "object", 1, c) : c \in ContentPool}

\* ------------------------------------------------------------------------
\* run()
\* ------------------------------------------------------------------------

Absent == [given |-> FALSE, value |-> ""]

Given(text) == [given |-> TRUE, value |-> text]

\* Python truth of an option value: None and "" are false
Truthy(option) == option.given /\ option.value # ""

\* command lines tried
ArgsPool ==
    [no_stage : BOOLEAN, dry_run : BOOLEAN, no_ai : BOOLEAN, ai_required : BOOLEAN,
     max_files : 0..MaxFilesArg,
     type_override : {Absent, Given("fix")},
     scope_override : {Absent, Given(""), Given("My Scope")},
     theme_override : {Absent, Given(""), Given("by hand")},
     intro_override : {Absent, Given("typed intro")}]

\* name-status outputs git gives: nothing staged, one added documentation file, one
\* modified source file, an added file and a rename under a directory to sanitize
RunRawPool ==
    {"",
     "A\tdocs/readme.md\n",
     "M\tsrc/server/handler.go\n",
     "A\tMy Lib/x.ts\nR100\told.py\tMy Lib/y.ts\n"}

RunDiffPool == {"", "@@ -1 +1 @@\n-old\n+fix null pointer\n"}

\* process exit status of each way run() ends; an exception run() does not catch
\* ends the interpreter with a traceback and status 1
ExitStatus(how) ==
    CASE how = "success" -> 0
      [] how = "noop" -> 1
      [] how = "failure" -> 2
      [] how = "traceback" -> 1
      [] OTHER -> -1

InitRun ==
    /\ pc = "start"
    /\ args \in ArgsPool
    /\ tree = "unknown" /\ raw = "" /\ parse_raised = "none" /\ staged_loaded = FALSE
    /\ staged_changes = <<>> /\ paths = <<>> /\ diff_text = "" /\ counts = NoCounts
    /\ local = NoDesc /\ desc = NoDesc /\ ai_used = FALSE /\ ai_raw = NoReply
    /\ ai_failure = "none" /\ message = NoMessage /\ remote_calls = 0
    /\ commit_calls = 0 /\ outcome = "running"

\* return / uncaught exception
Finish(how) == pc' = "done" /\ outcome' = how

\* lines 486-489
CheckArgs ==
    /\ pc = "start"
    /\ IF args.max_files < 1 THEN Finish("failure")
       ELSE pc' = "ensure_repo" /\ UNCHANGED outcome
    /\ UNCHANGED <<args, tree, raw, parse_raised, staged_loaded, staged_changes, paths,
                   diff_text, counts, local, desc, ai_used, ai_raw, ai_failure,
                   message, remote_calls, commit_calls>>

\* lines 491-495
EnsureRepo ==
    /\ pc = "ensure_repo"
    /\ \E inside \in BOOLEAN :
          IF inside THEN pc' = "status" /\ UNCHANGED outcome ELSE Finish("failure")
    /\ UNCHANGED <<args, tree, raw, parse_raised, staged_loaded, staged_changes, paths,
                   diff_text, counts, local, desc, ai_used, ai_raw, ai_failure,
                   message, remote_calls, commit_calls>>

\* lines 497-499
CheckStatus ==
    /\ pc = "status"
    /\ \E has_changes \in BOOLEAN :
          IF has_changes
          THEN tree' = "dirty" /\ pc' = "stage" /\ UNCHANGED outcome
          ELSE tree' = "clean" /\ Finish("noop")
    /\ UNCHANGED <<args, raw, parse_raised, staged_loaded, staged_changes, paths,
                   diff_text, counts, local, desc, ai_used, ai_raw, ai_failure,
                   message, remote_calls, commit_calls>>

\* StageAndLoad going on with an empty staged list
StageAndLoadNoEmptyCheck ==
    /\ pc = "stage"
    /\ \E add_ok \in BOOLEAN, out \in RunRawPool :
          IF ~args.no_stage /\ ~add_ok
          THEN /\ Finish("failure")
               /\ UNCHANGED <<raw, parse_raised, staged_loaded, staged_changes, paths>>
          ELSE /\ raw' = out
               /\ parse_raised' = parse_name_status(out).raised
               /\ IF parse_name_status(out).raised # "none"
                  THEN /\ Finish("traceback")
                       /\ UNCHANGED <<staged_loaded, staged_changes, paths>>
                  ELSE /\ staged_loaded' = TRUE
                       /\ staged_changes' = parse_name_status(out).changes
                       /\ paths' = [i \in 1..Len(staged_changes') |->
                                       staged_changes'[i].path]
                       /\ pc' = "describe" /\ UNCHANGED outcome
    /\ UNCHANGED <<args, tree, diff_text, counts, local, desc, ai_used, ai_raw,
                   ai_failure, message, remote_calls, commit_calls>>

\* lines 502-510: git add -A unless --no-stage, then the staged changes
StageAndLoad ==
    /\ pc = "stage"
    /\ \E add_ok \in BOOLEAN, out \in RunRawPool :
          IF ~args.no_stage /\ ~add_ok
          THEN /\ Finish("failure")
               /\ UNCHANGED <<raw, parse_raised, staged_loaded, staged_changes, paths>>
          ELSE /\ raw' = out
               /\ parse_raised' = parse_name_status(out).raised
               /\ IF parse_name_status(out).raised # "none"
                  THEN /\ Finish("traceback")
                       /\ UNCHANGED <<staged_loaded, staged_changes, paths>>
                  ELSE /\ staged_loaded' = TRUE
                       /\ staged_changes' = parse_name_status(out).changes
                       /\ IF Len(staged_changes') = 0
                          THEN Finish("noop") /\ UNCHANGED paths
                          ELSE /\ paths' = [i \in 1..Len(staged_changes') |->
                                               staged_changes'[i].path]
                               /\ pc' = "describe" /\ UNCHANGED outcome
    /\ UNCHANGED <<args, tree, diff_text, counts, local, desc, ai_used, ai_raw,
                   ai_failure, message, remote_calls, commit_calls>>

\* can_try_ai looking at --no-ai alone
can_try_ai_ignoring_overrides(a) == ~a.no_ai

\* line 522
can_try_ai(a) ==
    /\ ~a.no_ai
    /\ ~(\/ Truthy(a.type_override)
         \/ Truthy(a.scope_override)
         \/ Truthy(a.theme_override)
         \/ Truthy(a.intro_override))

\* lines 514-517
LocalDescription(a, path_list, diff, cnt) ==
    LET local_type == IF Truthy(a.type_override) THEN a.type_override.value
                      ELSE infer_type(path_list, diff, cnt)
        local_scope == IF Truthy(a.scope_override)
                       THEN sanitize_scope(a.scope_override.value)
                       ELSE infer_scope(path_list, local_type)
        local_theme == IF Truthy(a.theme_override) THEN a.theme_override.value
                       ELSE infer_theme(local_scope, cnt, local_type)
        local_intro == IF Truthy(a.intro_override) THEN a.intro_override.value
                       ELSE infer_intro(local_scope, cnt, path_list, a.max_files)
    IN  [type |-> local_type, scope |-> local_scope, theme |-> local_theme,
         intro |-> local_intro]

\* lines 511-523: the staged diff, the counts and the local description
DescribeLocal ==
    /\ pc = "describe"
    /\ \E out \in RunDiffPool :
          /\ diff_text' = out
          /\ counts' = count_changes(staged_changes)
          /\ local' = LocalDescription(args, paths, out, count_changes(staged_changes))
    /\ desc' = local'
    /\ ai_used' = FALSE
    /\ pc' = IF can_try_ai(args) THEN "remote" ELSE "emit"
    /\ UNCHANGED <<args, tree, raw, parse_raised, staged_loaded, staged_changes, paths,
                   ai_raw, ai_failure, message, remote_calls, commit_calls, outcome>>

\* lines 524-533: one remote attempt; RuntimeError falls back or is fatal, any other
\* exception leaves run()
RemoteGenerate ==
    /\ pc = "remote"
    /\ remote_calls' = remote_calls + 1
    /\ \E rc \in RemoteCases :
          LET got == request_deepseek(rc)
              norm == normalize_ai_result(got.content)
              raised == IF got.raised # "none" THEN got.raised ELSE norm.raised
              cause == IF got.raised # "none" THEN got.cause ELSE norm.cause
          IN  /\ ai_raw' = got.content
              /\ ai_failure' = cause
              /\ IF raised = "none"
                 THEN /\ desc' = norm.value
                      /\ ai_used' = TRUE
                      /\ pc' = "emit" /\ UNCHANGED outcome
                 ELSE IF raised = "RuntimeError"
                 THEN /\ UNCHANGED <<desc, ai_used>>
                      /\ IF args.ai_required THEN Finish("failure")
                         ELSE pc' = "emit" /\ UNCHANGED outcome
                 ELSE /\ UNCHANGED <<desc, ai_used>>
                      /\ Finish("traceback")
    /\ UNCHANGED <<args, tree, raw, parse_raised, staged_loaded, staged_changes, paths,
                   diff_text, counts, local, message, commit_calls>>

\* lines 535-551: the final clamp, header and body, the printed description
EmitDescription ==
    /\ pc = "emit"
    /\ desc' = [desc EXCEPT !.type = IF desc.type \in ALLOWED_TYPES THEN desc.type
                                     ELSE "chore"]
    /\ message' = [printed |-> TRUE,
                   header |-> CommitHeader(desc'.type, desc'.scope, desc'.theme),
                   body |-> build_body(desc'.type, desc'.scope, desc'.theme,
                                       desc'.intro)]
    /\ IF args.dry_run THEN Finish("success") ELSE pc' = "commit" /\ UNCHANGED outcome
    /\ UNCHANGED <<args, tree, raw, parse_raised, staged_loaded, staged_changes, paths,
                   diff_text, counts, local, ai_used, ai_raw, ai_failure,
                   remote_calls, commit_calls>>

\* lines 553-563: git commit, then git rev-parse --short HEAD
Commit ==
    /\ pc = "commit"
    /\ commit_calls' = commit_calls + 1
    /\ \E commit_ok \in BOOLEAN, rev_parse_ok \in BOOLEAN :
          Finish(IF commit_ok /\ rev_parse_ok THEN "success" ELSE "failure")
    /\ UNCHANGED <<args, tree, raw, parse_raised, staged_loaded, staged_changes, paths,
                   diff_text, counts, local, desc, ai_used, ai_raw, ai_failure,
                   message, remote_calls>>

NextRun ==
    \/ CheckArgs
    \/ EnsureRepo
    \/ CheckStatus
    \/ StageAndLoad
    \/ DescribeLocal
    \/ RemoteGenerate
    \/ EmitDescription
    \/ Commit

SpecRun == InitRun /\ [][NextRun]_vars

\* ------------------------------------------------------------------------
\* Properties of run() (checked under SpecRun)
\* ------------------------------------------------------------------------

RemoteFailed == remote_calls > 0 /\ ai_failure # "none"

\* C1: when remote generation is attempted and fails for any cause (missing
\* credential, transport failure or timeout, a body or content that is not JSON or
\* not a record, empty choices or content, a reply failing validation), then without
\* --ai-required the run goes on and emits the local type, scope, theme and intro,
\* and with --ai-required it ends with the failure exit without a git commit; it
\* ends in no other way.
C1_RemoteFailureHandled ==
    RemoteFailed =>
        IF args.ai_required
        THEN /\ pc = "done"
             /\ outcome = "failure"
             /\ ExitStatus(outcome) = 2
             /\ commit_calls = 0
        ELSE /\ outcome \notin {"traceback", "noop"}
             /\ pc \in {"emit", "commit", "done"}
             /\ ~ai_used
             /\ desc = local
             /\ pc \in {"commit", "done"} =>
                   /\ message.printed
                   /\ message.header = CommitHeader(local.type, local.scope, local.theme)

\* what the reply content is worth under the validation rules of the adapter
ReplyType == Lower(Strip(PyStr(ai_raw.fields.type)))

ReplyTheme == Strip(PyStr(ai_raw.fields.theme))

ReplyIntro == Strip(PyStr(ai_raw.fields.intro))

ReplyScope ==
    sanitize_scope(IF Strip(PyStr(ai_raw.fields.scope)) = "" THEN "repo"
                   ELSE Strip(PyStr(ai_raw.fields.scope)))

ReplyValid ==
    /\ ai_raw.json = "object"
    /\ ReplyType \in ALLOWED_TYPES
    /\ ReplyTheme # ""
    /\ ReplyIntro # ""

\* C2: the four emitted fields all come from one validated remote reply or all come
\* from the local path; a reply failing any validation step contributes no field.
C2_AllOrNothing ==
    message.printed =>
        /\ \/ /\ ai_used
              /\ ReplyValid
              /\ desc.type = ReplyType
              /\ desc.theme = ReplyTheme
              /\ desc.intro = ReplyIntro
              /\ desc.scope = ReplyScope
           \/ /\ ~ai_used
              /\ desc = local
        /\ ~ReplyValid => (~ai_used /\ desc = local)
        /\ message.header = CommitHeader(desc.type, desc.scope, desc.theme)
        /\ message.body = build_body(desc.type, desc.scope, desc.theme, desc.intro)

\* a reply with a valid type, scope and theme and no intro, and the local
\* description emitted
C2_Witness ==
    /\ message.printed
    /\ ai_raw.json = "object"
    /\ ReplyType = "fix"
    /\ ReplyTheme = "remote theme"
    /\ ai_raw.fields.scope = Str("Core API")
    /\ ai_raw.fields.intro = NoField
    /\ ~ai_used
    /\ desc = local
    /\ local.type # "fix"

Overrides == {"type_override", "scope_override", "theme_override", "intro_override"}

\* C3 as stated: the remote generator is invoked only without --no-ai and with none
\* of --type, --scope, --theme, --intro supplied.
C3_NoRemoteWhenOverrideSupplied ==
    remote_calls > 0 =>
        /\ ~args.no_ai
        /\ \A o \in Overrides : ~args[o].given

\* C3 amended: the remote generator is invoked only without --no-ai and with no
\* override supplied with a non-empty value; an override given the empty string
\* counts as not supplied.
C3_NoRemoteWhenOverrideNonEmpty ==
    /\ remote_calls > 0 =>
          /\ ~args.no_ai
          /\ \A o \in Overrides : ~(args[o].given /\ args[o].value # "")
    /\ pc = "remote" =>
          /\ ~args.no_ai
          /\ \A o \in Overrides : ~(args[o].given /\ args[o].value # "")

\* a finished run with remote generation enabled and --theme given, that printed a
\* description without a remote call
C3_Witness ==
    /\ pc = "done"
    /\ message.printed
    /\ ~args.no_ai
    /\ args.theme_override = Given("by hand")
    /\ ~args.type_override.given
    /\ ~args.scope_override.given
    /\ ~args.intro_override.given
    /\ remote_calls = 0

\* non-empty, only [a-z0-9._-], no hyphen or dot at either end
IsSanitizedToken(text) ==
    /\ text # ""
    /\ \A i \in 1..Len(text) :
          CharAt(text, i) \in CharsOf(LowerAlphabet) \cup CharsOf(Digits)
                                  \cup {".", "_", "-"}
    /\ CharAt(text, 1) \notin {"-", "."}
    /\ CharAt(text, Len(text)) \notin {"-", "."}

\* C7: the scope in the emitted header and body is a sanitized token, a fixed point
\* of sanitize_scope, whatever its source.
C7_EmittedScopeSanitized ==
    message.printed =>
        /\ IsSanitizedToken(desc.scope)
        /\ sanitize_scope(desc.scope) = desc.scope
        /\ StartsWith(message.header, desc.type \o "(" \o desc.scope \o "): ")
        /\ Contains(message.body, "\n{zuo}{yong}{yu}: " \o desc.scope \o "\n")

\* the remote scope "Core API" emitted as core-api
C7_Witness ==
    /\ message.printed
    /\ ai_used
    /\ ai_raw.fields.scope = Str("Core API")
    /\ desc.scope = "core-api"

NoChangesSeen == tree = "clean" \/ (staged_loaded /\ staged_changes = <<>>)

\* C8: with no changes to describe (clean tree, or an empty staged list after
\* staging) run() ends with exit status 1, apart from failure (2) and success (0),
\* having emitted nothing, called no remote generator and run no git commit.
C8_NoOpOutcome ==
    NoChangesSeen =>
        /\ pc = "done"
        /\ outcome = "noop"
        /\ ExitStatus(outcome) = 1
        /\ ExitStatus(outcome) \notin {ExitStatus("failure"), ExitStatus("success")}
        /\ local = NoDesc
        /\ ~message.printed
        /\ remote_calls = 0
        /\ commit_calls = 0

\* a dirty tree whose staged list came back empty
C8_Witness ==
    /\ pc = "done"
    /\ tree = "dirty"
    /\ staged_loaded
    /\ staged_changes = <<>>
    /\ outcome = "noop"

====
